---- MODULE Spec2Model ----
(***************************************************************************)
(* A model of wallpaper-autogen (package wpauto): the interpolation        *)
(* helper (interpol.py), the HSV / Gradient / palette value types          *)
(* (defs.py) and the scene generator (scene.py): the constrained random    *)
(* generator good_random_numbers, generate_peaks, draw_mountains and       *)
(* create_scene.                                                           *)
(*                                                                         *)
(* Python computes in IEEE doubles, and so does the model: a float is the   *)
(* double itself, sign, mantissa of 53 bits and exponent, and every        *)
(* operation rounds to nearest, ties to even, as the code's does.  The     *)
(* values of the model are finite and far from the largest and the         *)
(* smallest double; 0.0 and -0.0, which Python compares equal, are one     *)
(* zero.  <<>> stands for "no value": the result of a division by zero,    *)
(* which Python raises as ZeroDivisionError.  random.random() returns a    *)
(* multiple of 2^-53 in [0, 1); the model keeps a few of them, the largest *)
(* included: the variable random holds the values it can return.           *)
(***************************************************************************)
EXTENDS Integers, Sequences, FiniteSets, TLC

(***************************************************************************)
(* Bounds of the model.                                                    *)
(***************************************************************************)
\* good_random_numbers is called directly with num in -1..MaxNum
MaxNum == 3
\* random.random() returns k / 2^RandBits, or 1 - 2^-53, when the generator is
\* checked alone
RandBits == 4
\* the random source for the termination of the generator, with num in 0..LiveNum
LiveBits == 3
LiveNum == 2
\* the peak-count range (lo, hi) is drawn from -MaxNeg..MaxPeaks
MaxPeaks == 2
MaxNeg == 3
\* mountain_range_count is drawn from 0..MaxLayers
MaxLayers == 2
\* get_fog_at_level is called at most MaxCalls times, thickness k/4, k in 0..MaxThick
MaxCalls == 2
MaxThick == 9

(***************************************************************************)
(* Natural numbers of any size, for the mantissas: the sequence of the     *)
(* limbs, base 2^LimbBits, lowest first, without a leading zero limb       *)
(* (zero is <<>>).  Where a value is used more than once it is bound by a  *)
(* one-element set, CHOOSE r \in {e(x) : x \in {v}} : TRUE, so that it is  *)
(* computed once.                                                          *)
(***************************************************************************)
Abs(x) == IF x < 0 THEN 0 - x ELSE x

RECURSIVE Pow2(_)
Pow2(b) == IF b = 0 THEN 1 ELSE 2 * Pow2(b - 1)

\* a limb has LimbBits bits: a sum of products of two limbs is an integer of TLC
LimbBits == 14
Base == Pow2(LimbBits)

RECURSIVE NFromInt(_)
\* the natural number k >= 0
NFromInt(k) == IF k = 0 THEN <<>> ELSE <<k % Base>> \o NFromInt(k \div Base)

\* limb i of a, 0 outside of it
NLimb(a, i) == IF 1 <= i /\ i <= Len(a) THEN a[i] ELSE 0

RECURSIVE NNormTo(_, _)
NNormTo(a, n) == IF n > 0 /\ a[n] = 0 THEN NNormTo(a, n - 1) ELSE SubSeq(a, 1, n)

\* a without its leading zero limbs
NNorm(a) == CHOOSE r \in {NNormTo(x, Len(x)) : x \in {a}} : TRUE

RECURSIVE NCmpFrom(_, _, _)
NCmpFrom(a, b, i) ==
    IF i = 0 THEN 0
    ELSE IF a[i] # b[i] THEN (IF a[i] < b[i] THEN 0 - 1 ELSE 1)
    ELSE NCmpFrom(a, b, i - 1)

\* -1, 0, 1 as a < b, a = b, a > b
NCmp(a, b) ==
    IF Len(a) # Len(b) THEN (IF Len(a) < Len(b) THEN 0 - 1 ELSE 1)
    ELSE NCmpFrom(a, b, Len(a))

RECURSIVE NCarry(_, _, _)
\* the number with the value cols[i] at limb i, values of Base and above
\* carried upwards
NCarry(cols, i, c) ==
    IF i > Len(cols) THEN NFromInt(c)
    ELSE LET t == cols[i] + c
         IN  <<t % Base>> \o NCarry(cols, i + 1, t \div Base)

\* a + b
NAdd(a, b) ==
    CHOOSE r \in {NCarry(cols, 1, 0) :
                  cols \in {[i \in 1..(IF Len(a) > Len(b) THEN Len(a) ELSE Len(b)) |->
                               NLimb(a, i) + NLimb(b, i)]}} : TRUE

RECURSIVE NBorrow(_, _, _, _)
NBorrow(a, b, i, c) ==
    IF i > Len(a) THEN <<>>
    ELSE LET t == a[i] - NLimb(b, i) - c
         IN  <<(t + Base) % Base>> \o NBorrow(a, b, i + 1, IF t < 0 THEN 1 ELSE 0)

\* a - b, for a >= b
NSub(a, b) == NNorm(NBorrow(a, b, 1, 0))

RECURSIVE NColumn(_, _, _, _)
\* the sum of the products a[j] * b[k + 1 - j], j from i
NColumn(a, b, k, i) ==
    IF i > Len(a) THEN 0
    ELSE a[i] * NLimb(b, k + 1 - i) + NColumn(a, b, k, i + 1)

\* a * b
NMul(a, b) ==
    CHOOSE r \in {NNorm(NCarry(cols, 1, 0)) :
                  cols \in {[k \in 1..(Len(a) + Len(b)) |-> NColumn(a, b, k, 1)]}} : TRUE

\* a * 2^k
NShl(a, k) ==
    IF a = <<>> THEN <<>>
    ELSE [i \in 1..(k \div LimbBits) |-> 0]
         \o (IF k % LimbBits = 0 THEN a
             ELSE CHOOSE r \in {NCarry(cols, 1, 0) :
                      cols \in {[i \in 1..Len(a) |-> a[i] * Pow2(k % LimbBits)]}} : TRUE)

\* a \div 2^k
NShr(a, k) ==
    LET w == k \div LimbBits
        lo == Pow2(k % LimbBits)
        hi == Pow2(LimbBits - (k % LimbBits))
    IN  IF Len(a) <= w THEN <<>>
        ELSE NNorm([i \in 1..(Len(a) - w) |->
                      (a[w + i] \div lo) + (NLimb(a, w + i + 1) % lo) * hi])

\* bit k of a, the lowest being bit 0
NBit(a, k) == (NLimb(a, k \div LimbBits + 1) \div Pow2(k % LimbBits)) % 2

\* whether a % 2^k = 0
NLowZero(a, k) ==
    /\ \A i \in 1..(k \div LimbBits) : NLimb(a, i) = 0
    /\ NLimb(a, k \div LimbBits + 1) % Pow2(k % LimbBits) = 0

RECURSIVE BitLen(_)
BitLen(x) == IF x = 0 THEN 0 ELSE 1 + BitLen(x \div 2)

\* the number of bits of a
NBits(a) == IF a = <<>> THEN 0 ELSE LimbBits * (Len(a) - 1) + BitLen(a[Len(a)])

NIsOdd(a) == a # <<>> /\ a[1] % 2 = 1

RECURSIVE LowZeros(_)
LowZeros(x) == IF x % 2 = 1 THEN 0 ELSE 1 + LowZeros(x \div 2)

RECURSIVE NLowZerosFrom(_, _)
NLowZerosFrom(a, i) ==
    IF a[i] = 0 THEN LimbBits + NLowZerosFrom(a, i + 1) ELSE LowZeros(a[i])

\* the number of zero bits below the lowest one bit of a # 0
NLowZeros(a) == NLowZerosFrom(a, 1)

RECURSIVE NDivLimb(_, _, _, _)
\* limbs 1..i of a, with the remainder rem of the limbs above, divided by the
\* limb d: the limbs of the quotient, and the remainder
NDivLimb(a, d, i, rem) ==
    IF i = 0 THEN <<<<>>, rem>>
    ELSE CHOOSE r \in {<<Append(rest[1], (rem * Base + a[i]) \div d), rest[2]>> :
             rest \in {NDivLimb(a, d, i - 1, (rem * Base + a[i]) % d)}} : TRUE

RECURSIVE NDivBits(_, _, _, _)
\* n more bits of the quotient of r / d, for r < 2 * d, behind the bits q:
\* the quotient, and whether a remainder is left
NDivBits(r, d, n, q) ==
    IF n = 0 THEN <<q, r # <<>>>>
    ELSE CHOOSE x \in {NDivBits(r2, d, n - 1, q2) :
             r2 \in {IF NCmp(r, d) >= 0
                     THEN CHOOSE v \in {NAdd(u, u) : u \in {NSub(r, d)}} : TRUE
                     ELSE NAdd(r, r)},
             q2 \in {NCarry([i \in 1..Len(q) |-> 2 * q[i]], 1,
                            IF NCmp(r, d) >= 0 THEN 1 ELSE 0)}} : TRUE

(***************************************************************************)
(* Python's float: the IEEE double.  A float is <<s, m, e>>, the number    *)
(* s * m * 2^e with the sign s in {-1, 1} and a mantissa m of Precision    *)
(* bits; zero is <<0, <<>>, 0>>.  Every operation returns the float        *)
(* nearest to the exact result, ties to the even mantissa.  The exponent   *)
(* is not limited: no operation of the model overflows or underflows.      *)
(***************************************************************************)
Precision == 53

Zero == <<0, <<>>, 0>>

\* what a division by zero leaves: no value (Python raises ZeroDivisionError)
ZeroDivision == <<>>
IsNum(a) == a # ZeroDivision

\* m / 2^sh, plus a fraction below one unit of m when sticky, rounded to the
\* nearest integer, ties to even
RoundNearestEven(m, sh, sticky) ==
    CHOOSE r \in {IF NBit(m, sh - 1) = 1 /\ (sticky \/ ~NLowZero(m, sh - 1) \/ NIsOdd(q))
                  THEN NAdd(q, <<1>>) ELSE q :
                  q \in {NShr(m, sh)}} : TRUE

\* s * q * 2^e, where rounding up may have carried q to 2^Precision
Carried(s, q, e) ==
    CHOOSE r \in {IF NBits(v) > Precision THEN <<s, NShr(v, 1), e + 1>> ELSE <<s, v, e>> :
                  v \in {q}} : TRUE

\* the float nearest to s * (m + f) * 2^e, m of len bits
RoundTo(s, m, len, e, sticky) ==
    IF len = 0 THEN Zero
    ELSE IF len <= Precision THEN <<s, NShl(m, Precision - len), e - (Precision - len)>>
    ELSE Carried(s, RoundNearestEven(m, len - Precision, sticky), e + (len - Precision))

\* the float nearest to s * (m + f) * 2^e, with 0 <= f < 1 and f > 0 iff sticky
FloatRound(s, m, e, sticky) ==
    CHOOSE r \in {RoundTo(s, x, NBits(x), e, sticky) : x \in {m}} : TRUE

\* float(k) of an integer k
FromInt(k) ==
    IF k = 0 THEN Zero
    ELSE FloatRound(IF k < 0 THEN 0 - 1 ELSE 1, NFromInt(Abs(k)), 0, FALSE)

FNeg(a) == CHOOSE r \in {<<0 - x[1], x[2], x[3]>> : x \in {a}} : TRUE
\* abs()
FAbs(a) == CHOOSE r \in {<<x[1] * x[1], x[2], x[3]>> : x \in {a}} : TRUE

\* -1, 0, 1 as x < y, x = y, x > y
FCmp(x, y) ==
    IF x[1] # y[1] THEN (IF x[1] < y[1] THEN 0 - 1 ELSE 1)
    ELSE IF x[1] = 0 THEN 0
    ELSE IF x[3] # y[3] THEN (IF x[3] < y[3] THEN 0 - x[1] ELSE x[1])
    ELSE x[1] * NCmp(x[2], y[2])

FLt(a, b) == CHOOSE r \in {FCmp(x, y) < 0 : x \in {a}, y \in {b}} : TRUE
FLe(a, b) == CHOOSE r \in {FCmp(x, y) <= 0 : x \in {a}, y \in {b}} : TRUE

\* beyond this difference of the exponents the smaller term is below a
\* quarter of the spacing of the floats around the larger one
FarApart == 2 * Precision + 2

\* x + y for x, y # 0, both mantissas scaled to the exponent e
AddAligned(x, y, e) ==
    CHOOSE r \in {IF x[1] = y[1] THEN FloatRound(x[1], NAdd(mx, my), e, FALSE)
                  ELSE IF NCmp(mx, my) = 0 THEN Zero
                  ELSE IF NCmp(mx, my) > 0 THEN FloatRound(x[1], NSub(mx, my), e, FALSE)
                  ELSE FloatRound(y[1], NSub(my, mx), e, FALSE) :
                  mx \in {NShl(x[2], x[3] - e)}, my \in {NShl(y[2], y[3] - e)}} : TRUE

\* a + b
FAdd(a, b) ==
    CHOOSE r \in {IF x[1] = 0 THEN y
                  ELSE IF y[1] = 0 THEN x
                  ELSE IF x[3] - y[3] > FarApart THEN x
                  ELSE IF y[3] - x[3] > FarApart THEN y
                  ELSE AddAligned(x, y, IF x[3] < y[3] THEN x[3] ELSE y[3]) :
                  x \in {a}, y \in {b}} : TRUE

\* a - b
FSub(a, b) == FAdd(a, FNeg(b))

\* a * b
FMul(a, b) ==
    CHOOSE r \in {IF x[1] = 0 \/ y[1] = 0 THEN Zero
                  ELSE FloatRound(x[1] * y[1], NMul(x[2], y[2]), x[3] + y[3], FALSE) :
                  x \in {a}, y \in {b}} : TRUE

\* x / y for x, y # 0 by long division: Precision + 3 bits of the quotient of
\* the mantissas, which lies between 1/2 and 2, leave at least two bits to
\* round by
DivLong(x, y) ==
    CHOOSE r \in {FloatRound(x[1] * y[1], qr[1], x[3] - y[3] - (Precision + 2), qr[2]) :
                  qr \in {NDivBits(x[2], y[2], Precision + 3, <<>>)}} : TRUE

\* x / (s * d * 2^e) for x # 0 and a divisor of one limb, by short division:
\* two more limbs of the dividend leave more than two bits to round by
DivShort(x, s, d, e) ==
    CHOOSE r \in {FloatRound(x[1] * s, NNorm(qr[1]), x[3] - e - 2 * LimbBits, qr[2] # 0) :
                  qr \in {NDivLimb(<<0, 0>> \o x[2], d, Len(x[2]) + 2, 0)}} : TRUE

\* a / b; b = 0 raises.  The mantissa of b without its low zero bits is the
\* divisor: an integer divisor, as most of the code's are, has one limb
FDiv(a, b) ==
    CHOOSE r \in {IF y[1] = 0 THEN ZeroDivision
                  ELSE IF x[1] = 0 THEN Zero
                  ELSE CHOOSE v \in {IF Len(d) = 1
                                      THEN DivShort(x, y[1], d[1], y[3] + NLowZeros(y[2]))
                                      ELSE DivLong(x, y) :
                                     d \in {NShr(y[2], NLowZeros(y[2]))}} : TRUE :
                  x \in {a}, y \in {b}} : TRUE

\* the float a literal n/d is read as: the one nearest to it
Float(n, d) == FDiv(FromInt(n), FromInt(d))

RECURSIVE FMin(_)
\* min() of a non-empty sequence of numbers
FMin(s) ==
    IF Len(s) = 1 THEN s[1]
    ELSE CHOOSE r \in {IF FLe(s[1], m) THEN s[1] ELSE m : m \in {FMin(Tail(s))}} : TRUE

(***************************************************************************)
(* The literals the code computes with: each is read once, as the float    *)
(* nearest to it.                                                          *)
(***************************************************************************)
One == FromInt(1)
Lit_0_1 == Float(1, 10)
Lit_0_2 == Float(2, 10)
Lit_0_3 == Float(3, 10)
Lit_0_4 == Float(4, 10)
Lit_0_45 == Float(45, 100)
Lit_0_49 == Float(49, 100)
Lit_0_5 == Float(1, 2)
Lit_0_85 == Float(85, 100)

(***************************************************************************)
(* interpol.py                                                             *)
(***************************************************************************)
\* the mutant of sample_linear: max_i = 0 is guarded and gives start
sample_linear_guarded(start, end, i, max_i) ==
    IF max_i = 0 THEN start
    ELSE LET percentage == FDiv(FromInt(i), FromInt(max_i))
         IN  FAdd(FMul(start, FSub(One, percentage)), FMul(end, percentage))

\* sample_linear(start, end, i, max_i): i and max_i are integers.
\* percentage = i / max_i raises ZeroDivisionError when max_i = 0.
sample_linear(start, end, i, max_i) ==
    LET percentage == FDiv(FromInt(i), FromInt(max_i))
    IN  IF ~IsNum(percentage) THEN ZeroDivision
        ELSE FAdd(FMul(start, FSub(One, percentage)), FMul(end, percentage))

(***************************************************************************)
(* defs.py: HSV, Gradient, ColorGradients                                  *)
(***************************************************************************)
\* an optional argument: None, or <<v>> when given
None == <<>>
Some(v) == <<v>>

HSV(hue, saturation, value, alpha) ==
    [hue |-> hue, saturation |-> saturation, value |-> value, alpha |-> alpha]

darken(c, ammount) ==
    HSV(c.hue, c.saturation, FMul(c.value, FSub(One, ammount)), c.alpha)

desaturate(c, ammount) ==
    HSV(c.hue, FMul(c.saturation, FSub(One, ammount)), c.value, c.alpha)

\* the mutant of copy: "a if a else b", which also drops an override of 0
copy_truthy(c, hue, saturation, value, alpha) ==
    LET pick(a, b, zero) == IF a # None /\ a[1] # zero THEN a[1] ELSE b
    IN  HSV(pick(hue, c.hue, 0), pick(saturation, c.saturation, Zero),
            pick(value, c.value, Zero), pick(alpha, c.alpha, Zero))

\* HSV.copy: a if a is not None else b, field by field
copy(c, hue, saturation, value, alpha) ==
    LET pick(a, b) == IF a # None THEN a[1] ELSE b
    IN  HSV(pick(hue, c.hue), pick(saturation, c.saturation),
            pick(value, c.value), pick(alpha, c.alpha))

\* a Gradient is the tuple of its stops
Gradient(stops) == stops

\* Gradient.linear_gradient: stop i is placed at i / len(stops).  The colour
\* is kept as HSV: hsv_to_rgb belongs to the standard library.
linear_gradient(g, x0, y0, x1, y1) ==
    [p0 |-> <<x0, y0>>, p1 |-> <<x1, y1>>,
     stops |-> [k \in 1..Len(g) |->
                  [offset |-> FDiv(FromInt(k - 1), FromInt(Len(g))), color |-> g[k]]]]

\* the palette's literals
ColorGradients ==
    [MountainRed |-> Gradient(<<HSV(347, Float(67, 100), Float(65, 100), One),
                                HSV(14, Float(8, 10), Float(95, 100), One)>>),
     SkyBlue |-> Gradient(<<HSV(228, Lit_0_85, One, One),
                            HSV(196, One, One, One)>>),
     SunYellow |-> Gradient(<<HSV(0, Zero, One, One),
                              HSV(43, One, One, One)>>),
     Fog |-> Gradient(<<HSV(0, Zero, One, One),
                        HSV(0, Zero, Zero, Zero)>>)]

\* ColorGradients.get_fog_at_level
\* Gradient.map(mapper) builds Gradient(*(mapper(i, c) for i, c in enumerate(stops)));
\* here the mapper is lambda i, c: c.copy(alpha=c.alpha * thickness)
get_fog_at_level(self, thickness) ==
    Gradient([k \in 1..Len(self.Fog) |->
                copy(self.Fog[k], None, None, None,
                     Some(FMul(self.Fog[k].alpha, thickness)))])

\* scene.darken_mapper
darken_mapper(val, sat, i, color) == desaturate(darken(color, val), sat)


(***************************************************************************)
(* State.                                                                  *)
(***************************************************************************)
VARIABLES
    \* the random source: the values random.random() can return
    random,
    \* good_random_numbers, a generator: its position, arguments and locals
    gpc,               \* "idle", "created", "yield42", "while", "yield48", "done"
    gnum, gmin, gmax,  \* the arguments num, min, max
    gdiff,             \* the argument min_diff_percent, as passed
    min_diff_percent,  \* the local min_diff_percent (line 38 reassigns it)
    size, prev, new, gi,
    out,               \* the value of the last yield
    gcount,            \* how many values were yielded
    diag,              \* what was printed
    drew,              \* whether the generator consumed a random draw
    \* generate_peaks: its position, arguments and locals
    ppc,               \* "idle", "call", "heights", "xs", "jitter", "transform",
                       \* "returned", "raised"
    pnum, pbounds, pdims, ppeakiness,
    num_peaks, peaks_y, peaks_x, jitter_amount,
    jittered,          \* the list the comprehension of line 71 is building
    presult,           \* the returned list of points
    perr,              \* the exception raised, "" if none
    \* create_scene / draw_mountains
    spc,               \* "idle", "body", "loop", "peaks", "fog", "done", "raised"
    call,              \* the statement of create_scene's with block that runs next
    params,            \* SceneParameters
    layer,             \* the loop variable i of draw_mountains
    bounds,            \* get_bounds(i)
    path,              \* generate_peaks' result for this layer
    surface,           \* the fills drawn on the surface, in order
    printed,           \* whether "done" was printed
    serr,              \* the exception that left create_scene, "" if none
    \* the palette and the gradients get_fog_at_level returned
    palette, fogs

genVars == <<gpc, gnum, gmin, gmax, gdiff, min_diff_percent, size, prev, new, gi,
             out, gcount, diag, drew>>
peakVars == <<ppc, pnum, pbounds, pdims, ppeakiness, num_peaks, peaks_y, peaks_x,
              jitter_amount, jittered, presult, perr>>
sceneVars == <<spc, call, params, layer, bounds, path, surface, printed, serr>>
fogVars == <<fogs>>
vars == <<random, genVars, peakVars, sceneVars, fogVars, palette>>

\* a local that is not assigned yet
Unset == <<>>

\* the float 2^e
FPow2(e) == <<1, NShl(<<1>>, Precision - 1), e - (Precision - 1)>>

\* the largest value random.random() returns: 1 - 2^-53
RandomMax == FSub(One, FPow2(0 - Precision))

\* a random source: k / 2^bits, k in 0..2^bits - 1, and the largest value
RandomOfBits(bits) == {Float(k, Pow2(bits)) : k \in 0..(Pow2(bits) - 1)} \cup {RandomMax}

GenIdle ==
    /\ gpc = "idle" /\ gnum = 0 /\ gmin = Unset /\ gmax = Unset /\ gdiff = Unset
    /\ min_diff_percent = Unset /\ size = Unset /\ prev = Unset /\ new = Unset
    /\ gi = 0 /\ out = Unset /\ gcount = 0 /\ diag = <<>> /\ drew = FALSE

PeaksIdle ==
    /\ ppc = "idle" /\ pnum = <<0, 0>> /\ pbounds = <<Unset, Unset>>
    /\ pdims = <<0, 0>> /\ ppeakiness = Unset /\ num_peaks = 0
    /\ peaks_y = <<>> /\ peaks_x = <<>> /\ jitter_amount = Unset /\ jittered = <<>>
    /\ presult = <<>> /\ perr = ""

SceneIdle ==
    /\ spc = "idle" /\ call = 0 /\ params = [mountain_range_count |-> 0] /\ layer = 0
    /\ bounds = <<Unset, Unset>> /\ path = <<>> /\ surface = <<>>
    /\ printed = FALSE /\ serr = ""

(***************************************************************************)
(* scene.good_random_numbers                                               *)
(***************************************************************************)
\* the mutant of Clamp: the limit is 0.51, above one half
Lit_0_51 == Float(51, 100)
ClampHigh(d) == IF FLt(Lit_0_49, d) THEN Lit_0_51 ELSE d

\* the mutant of Clamp: no correction
ClampNone(d) == d

\* lines 36-38: min_diff_percent > 0.49 is corrected to 0.49
Clamp(d) == IF FLt(Lit_0_49, d) THEN Lit_0_49 ELSE d

\* the mutant of Rejected: the comparison is turned around
RejectedInverted(n, p, d) == FLt(d, FAbs(FSub(n, p)))

\* line 46, the while condition: abs(new - prev) < min_diff_percent
Rejected(n, p, d) == FLt(FAbs(FSub(n, p)), d)

\* line 40: size = max - min
Size(mn, mx) == FSub(mx, mn)

\* lines 42 and 48: the yielded value, raw * size + min
Scaled(raw, sz, mn) == FAdd(FMul(raw, sz), mn)

\* lines 33-38: what is printed for min_diff_percent
Diagnostics(d) ==
    (IF FLt(Lit_0_45, d) THEN <<"warning">> ELSE <<>>)
    \o (IF FLt(Lit_0_49, d) THEN <<"corrected">> ELSE <<>>)

\* the call good_random_numbers(num, min, max, min_diff_percent): a generator
\* object is made and none of the body runs
GenCall(num, mn, mx, d) ==
    /\ gpc' = "created"
    /\ gnum' = num /\ gmin' = mn /\ gmax' = mx /\ gdiff' = d
    /\ min_diff_percent' = d
    /\ size' = Unset /\ prev' = Unset /\ new' = Unset /\ gi' = 0
    /\ out' = Unset /\ gcount' = 0 /\ diag' = <<>> /\ drew' = FALSE

\* the first next(): lines 30-42
GenStart ==
    /\ gpc = "created"
    /\ IF gnum = 0
       THEN /\ gpc' = "done"
            /\ UNCHANGED <<min_diff_percent, size, prev, out, gcount, diag, drew>>
       ELSE /\ diag' = diag \o Diagnostics(min_diff_percent)
            /\ min_diff_percent' = Clamp(min_diff_percent)
            /\ size' = Size(gmin, gmax)
            /\ \E r \in random : prev' = r
            /\ out' = Scaled(prev', size', gmin)
            /\ gcount' = gcount + 1
            /\ drew' = TRUE
            /\ gpc' = "yield42"
    /\ UNCHANGED <<random, gnum, gmin, gmax, gdiff, new, gi, peakVars, sceneVars,
                   fogVars, palette>>

\* next() at a yield: line 49 after the yield of line 48, then the for of line 44
\* (range(num - 1)) and, for one more iteration, the draw of line 45
GenResume ==
    /\ gpc \in {"yield42", "yield48"}
    /\ prev' = IF gpc = "yield48" THEN new ELSE prev
    /\ LET nxt == IF gpc = "yield48" THEN gi + 1 ELSE 0
       IN  IF nxt < gnum - 1
           THEN /\ gi' = nxt
                /\ \E r \in random : new' = r
                /\ gpc' = "while"
           ELSE /\ gpc' = "done"
                /\ UNCHANGED <<gi, new>>
    /\ UNCHANGED <<random, gnum, gmin, gmax, gdiff, min_diff_percent, size, out,
                   gcount, diag, drew>>

\* lines 46-47: the draw is too close to prev, draw again
GenRedraw ==
    /\ gpc = "while"
    /\ Rejected(new, prev, min_diff_percent)
    /\ \E r \in random : new' = r
    /\ UNCHANGED <<random, gpc, gnum, gmin, gmax, gdiff, min_diff_percent, size, prev,
                   gi, out, gcount, diag, drew, peakVars, sceneVars, fogVars, palette>>

\* lines 46, 48: the draw is accepted and yielded
GenYield ==
    /\ gpc = "while"
    /\ ~Rejected(new, prev, min_diff_percent)
    /\ out' = Scaled(new, size, gmin)
    /\ gcount' = gcount + 1
    /\ gpc' = "yield48"
    /\ UNCHANGED <<random, gnum, gmin, gmax, gdiff, min_diff_percent, size, prev, new,
                   gi, diag, drew, peakVars, sceneVars, fogVars, palette>>

\* a caller that iterates the generator and drops the values
Consume ==
    /\ ppc = "idle"
    /\ GenResume
    /\ UNCHANGED <<peakVars, sceneVars, fogVars, palette>>

\* the arguments good_random_numbers is called with
Nums == (0 - 1)..MaxNum
Bands == {<<Zero, One>>, <<Float(7, 32), Float(5, 8)>>,
          <<Float(425, 1000), Float(7, 10)>>}
Diffs == {Zero, Lit_0_2, Float(46, 100), Lit_0_49, Lit_0_5, Float(12, 10)}

\* good_random_numbers(num, b[1], b[2], d) was called and nothing else runs
GenCalled(num, b, d) ==
    /\ gpc = "created"
    /\ gnum = num /\ gmin = b[1] /\ gmax = b[2] /\ gdiff = d
    /\ min_diff_percent = d
    /\ size = Unset /\ prev = Unset /\ new = Unset /\ gi = 0
    /\ out = Unset /\ gcount = 0 /\ diag = <<>> /\ drew = FALSE
    /\ PeaksIdle /\ SceneIdle
    /\ palette = ColorGradients /\ fogs = <<>>

InitRandoms ==
    /\ random = RandomOfBits(RandBits)
    /\ \E num \in Nums, b \in Bands, d \in Diffs : GenCalled(num, b, d)

NextRandoms == GenStart \/ GenRedraw \/ GenYield \/ Consume

SpecRandoms == InitRandoms /\ [][NextRandoms]_vars

\* a redraw that returns a value the while condition lets through
GenRedrawAccepted == GenRedraw /\ ~Rejected(new', prev, min_diff_percent)

\* the caller keeps iterating, and the random source is fair: a value that is
\* possible again and again is eventually drawn
InitRandomsFair ==
    /\ random = RandomOfBits(LiveBits)
    /\ \E num \in 0..LiveNum, d \in Diffs : GenCalled(num, <<Float(7, 32), Float(5, 8)>>, d)

SpecRandomsFair ==
    /\ InitRandomsFair /\ [][NextRandoms]_vars
    /\ WF_vars(GenStart) /\ WF_vars(Consume) /\ WF_vars(GenYield)
    /\ WF_vars(GenRedrawAccepted)

(***************************************************************************)
(* scene.generate_peaks                                                    *)
(***************************************************************************)
\* line 56: two extra peaks for the off-screen anchors
NumPeaks(n) == n + 2

\* the mutant of EvenX: the divisor is num_peaks - 1
EvenXOffByOne(i, n) == FDiv(FSub(FromInt(i), Lit_0_5), FromInt(n - 1))

\* line 64: (i - .5) / (num_peaks - 2), which raises when num_peaks = 2
EvenX(i, n) == FDiv(FSub(FromInt(i), Lit_0_5), FromInt(n - 2))

\* the mutant of JitterAmount: 2 instead of .2, twice the space between peaks
JitterAmountWide(n) == FDiv(FromInt(2), FromInt(n - 2))

\* line 68: .2 / (num_peaks - 2)
JitterAmount(n) == FDiv(Lit_0_2, FromInt(n - 2))

\* line 72: x + (random.random() - .5) * jitter_amount
Jitter(x, r, amount) == FAdd(x, FMul(FSub(r, Lit_0_5), amount))

\* lines 78-83: to pixel space
PixelX(x, dims) == FMul(FSub(One, x), FromInt(dims[1]))
PixelY(y, dims) == FMul(y, FromInt(dims[2]))

\* zip(): as long as the shorter of the two
Zip(xs, ys) ==
    LET n == IF Len(xs) < Len(ys) THEN Len(xs) ELSE Len(ys)
    IN  [k \in 1..n |-> <<xs[k], ys[k]>>]

\* the mutant of ClosingPoints: the two corners in the other order
ClosingPointsSwapped(dims) ==
    << <<FromInt(dims[1]), FromInt(dims[2])>>, <<Zero, FromInt(dims[2])>> >>

\* line 86: [(0, dims[1]), (dims[0], dims[1])]
ClosingPoints(dims) ==
    << <<Zero, FromInt(dims[2])>>, <<FromInt(dims[1]), FromInt(dims[2])>> >>

\* the call generate_peaks(num, bounds, dims, peakiness)
PeaksCall(num, bnds, dims, peakiness) ==
    /\ ppc' = "call"
    /\ pnum' = num /\ pbounds' = bnds /\ pdims' = dims /\ ppeakiness' = peakiness
    /\ num_peaks' = 0 /\ peaks_y' = <<>> /\ peaks_x' = <<>>
    /\ jitter_amount' = Unset /\ jittered' = <<>> /\ presult' = <<>> /\ perr' = ""

\* lines 54-59: random.randint(*num), which raises ValueError on an empty
\* range, then the generator of the heights is made
PeaksRandint ==
    /\ ppc = "call"
    /\ IF pnum[1] > pnum[2]
       THEN /\ ppc' = "raised" /\ perr' = "ValueError"
            /\ UNCHANGED <<num_peaks, genVars>>
       ELSE /\ \E n \in pnum[1]..pnum[2] : num_peaks' = NumPeaks(n)
            /\ GenCall(num_peaks', pbounds[1], pbounds[2], FMul(Lit_0_3, ppeakiness))
            /\ ppc' = "heights"
            /\ perr' = perr
    /\ UNCHANGED <<random, pnum, pbounds, pdims, ppeakiness, peaks_y, peaks_x,
                   jitter_amount, jittered, presult, sceneVars, fogVars, palette>>

\* line 59: the list comprehension takes the yielded value and asks for the next
PeaksCollect ==
    /\ ppc = "heights"
    /\ gpc \in {"yield42", "yield48"}
    /\ peaks_y' = Append(peaks_y, out)
    /\ GenResume
    /\ UNCHANGED <<ppc, pnum, pbounds, pdims, ppeakiness, num_peaks, peaks_x,
                   jitter_amount, jittered, presult, perr, sceneVars, fogVars, palette>>

\* lines 64-68 once the generator is exhausted: the even x positions over
\* range(num_peaks) and the jitter amount; a division by zero raises
PeaksXs ==
    /\ ppc = "heights"
    /\ gpc = "done"
    /\ LET xs == [k \in 1..num_peaks |-> EvenX(k - 1, num_peaks)]
           amount == JitterAmount(num_peaks)
       IN  IF (\E k \in 1..num_peaks : ~IsNum(xs[k])) \/ ~IsNum(amount)
           THEN /\ ppc' = "raised" /\ perr' = "ZeroDivisionError"
                /\ UNCHANGED <<peaks_x, jitter_amount>>
           ELSE /\ peaks_x' = xs /\ jitter_amount' = amount
                /\ ppc' = "jitter" /\ perr' = perr
    /\ UNCHANGED <<random, genVars, pnum, pbounds, pdims, ppeakiness, num_peaks,
                   peaks_y, jittered, presult, sceneVars, fogVars, palette>>

\* lines 71-73: one more element of the comprehension, one random draw
PeaksJitter ==
    /\ ppc = "jitter"
    /\ Len(jittered) < Len(peaks_x)
    /\ \E r \in random :
          jittered' = Append(jittered, Jitter(peaks_x[Len(jittered) + 1], r, jitter_amount))
    /\ UNCHANGED <<random, genVars, ppc, pnum, pbounds, pdims, ppeakiness, num_peaks,
                   peaks_y, peaks_x, jitter_amount, presult, perr, sceneVars, fogVars,
                   palette>>

\* lines 71, 78-86: the comprehension is complete; pixel space, zip, the two
\* closing points
PeaksReturn ==
    /\ ppc = "jitter"
    /\ Len(jittered) = Len(peaks_x)
    /\ peaks_x' = [k \in 1..Len(jittered) |-> PixelX(jittered[k], pdims)]
    /\ peaks_y' = [k \in 1..Len(peaks_y) |-> PixelY(peaks_y[k], pdims)]
    /\ presult' = Zip(peaks_x', peaks_y') \o ClosingPoints(pdims)
    /\ ppc' = "returned"
    /\ UNCHANGED <<random, genVars, pnum, pbounds, pdims, ppeakiness, num_peaks,
                   jitter_amount, jittered, perr, sceneVars, fogVars, palette>>

\* the peak-count ranges generate_peaks is called with, empty ones included
Ranges == {r \in ((0 - MaxNeg)..MaxPeaks) \X ((0 - MaxNeg)..MaxPeaks) : r[1] <= r[2] + 1}

\* the values of random.random() when generate_peaks is checked alone
PeakDraws == {Zero, Lit_0_5, RandomMax}

InitPeaks ==
    /\ random = PeakDraws
    /\ GenIdle
    /\ ppc = "call"
    /\ pnum \in Ranges
    /\ pbounds = <<Float(15, 100), Float(65, 100)>>
    /\ pdims = <<3840, 2160>>
    /\ ppeakiness = Lit_0_4
    /\ num_peaks = 0 /\ peaks_y = <<>> /\ peaks_x = <<>>
    /\ jitter_amount = Unset /\ jittered = <<>> /\ presult = <<>> /\ perr = ""
    /\ SceneIdle
    /\ palette = ColorGradients /\ fogs = <<>>

NextPeaks ==
    \/ PeaksRandint \/ PeaksCollect \/ PeaksXs \/ PeaksJitter \/ PeaksReturn
    \/ GenStart \/ GenRedraw \/ GenYield

SpecPeaks == InitPeaks /\ [][NextPeaks]_vars

(***************************************************************************)
(* scene.create_scene, draw_sky, draw_sun, draw_mountains, _draw_path      *)
(***************************************************************************)
\* defs.SceneParameters with its defaults, but for the three given fields
SceneParameters(count, peaks, peakiness) ==
    [img_dimensions |-> <<3840, 2160>>,
     sun_height |-> Lit_0_85, sun_size |-> Lit_0_1,
     fog_height |-> Float(8, 10), fog_thickness |-> One,
     mountain_range_count |-> count,
     mountain_position |-> <<Float(15, 100), Float(7, 10)>>,
     mountain_peaks |-> peaks,
     mountain_roughness |-> Lit_0_2,
     mountain_peakiness |-> peakiness]

\* the mutant of create_scene: the sun is drawn after the mountains
create_scene_sun_last == <<"draw_sky", "draw_mountains", "draw_sun">>

\* lines 158-160: the calls of create_scene's with block, in order
create_scene == <<"draw_sky", "draw_sun", "draw_mountains">>

\* the mutant of get_bounds: both bounds sample the sweep from start to end
get_bounds_one_sweep(prm, i) ==
    <<sample_linear(prm.mountain_position[1], prm.mountain_position[2],
                    i, prm.mountain_range_count),
      sample_linear(prm.mountain_position[1], prm.mountain_position[2],
                    i + 1, prm.mountain_range_count)>>

\* lines 93-100, draw_mountains.get_bounds
get_bounds(prm, i) ==
    <<sample_linear(prm.mountain_position[1], prm.mountain_position[2],
                    i, prm.mountain_range_count),
      sample_linear(FMul(prm.mountain_position[1], prm.mountain_peakiness),
                    prm.mountain_position[2], i + 1, prm.mountain_range_count)>>

\* _draw_path: move_to the first point, line_to the others, close, fill
draw_path(kind, i, pth, fill) ==
    [kind |-> kind, layer |-> i, path |-> pth, radius |-> Unset, fill |-> fill]

\* lines 114-122: the darkened, desaturated MountainRed gradient of layer i
MountainFill(prm, pal, i) ==
    LET n == prm.mountain_range_count
        darken_factor == sample_linear(Zero, Lit_0_85, i, n - 1)
        desaturation_factor == sample_linear(Zero, One, i, n - 1)
        mapped == Gradient([k \in 1..Len(pal.MountainRed) |->
                              darken_mapper(darken_factor, desaturation_factor,
                                            k - 1, pal.MountainRed[k])])
    IN  linear_gradient(mapped, Zero, Zero,
                        FromInt(prm.img_dimensions[1]), FromInt(prm.img_dimensions[2]))

\* lines 125-127: the fog gradient of layer i over the polygon pth
FogFill(prm, pal, i, pth) ==
    LET n == prm.mountain_range_count
        height == FromInt(prm.img_dimensions[2])
        gradient_end == FSub(height, FMin([k \in 1..Len(pth) |-> pth[k][2]]))
        thickness == sample_linear(prm.fog_thickness,
                                   FDiv(prm.fog_thickness, FromInt(4)), i, n - 1)
    IN  linear_gradient(get_fog_at_level(pal, thickness), Zero, height,
                        Zero, FDiv(gradient_end, FromInt(2)))

\* draw_sky: the whole canvas, filled with the SkyBlue gradient
DrawSky ==
    /\ spc = "body" /\ call <= Len(create_scene) /\ create_scene[call] = "draw_sky"
    /\ LET w == FromInt(params.img_dimensions[1])
           h == FromInt(params.img_dimensions[2])
       IN  surface' = Append(surface,
               [kind |-> "sky", layer |-> 0 - 1,
                path |-> << <<Zero, Zero>>, <<w, h>> >>, radius |-> Unset,
                fill |-> linear_gradient(palette.SkyBlue, Zero, Zero, w, h)])
    /\ call' = call + 1
    /\ UNCHANGED <<random, genVars, peakVars, spc, params, layer, bounds, path,
                   printed, serr, fogVars, palette>>

\* draw_sun: a white disc
DrawSun ==
    /\ spc = "body" /\ call <= Len(create_scene) /\ create_scene[call] = "draw_sun"
    /\ LET w == FromInt(params.img_dimensions[1])
           h == FromInt(params.img_dimensions[2])
       IN  surface' = Append(surface,
               [kind |-> "sun", layer |-> 0 - 1,
                path |-> << <<FMul(w, Lit_0_85),
                              FMul(h, FSub(One, params.sun_height))>> >>,
                radius |-> FMul(h, params.sun_size),
                fill |-> <<1, 1, 1>>])
    /\ call' = call + 1
    /\ UNCHANGED <<random, genVars, peakVars, spc, params, layer, bounds, path,
                   printed, serr, fogVars, palette>>

\* draw_mountains is entered: lines 90-105
DrawMountains ==
    /\ spc = "body" /\ call <= Len(create_scene) /\ create_scene[call] = "draw_mountains"
    /\ layer' = 0
    /\ spc' = "loop"
    /\ UNCHANGED <<random, genVars, peakVars, call, params, bounds, path, surface,
                   printed, serr, fogVars, palette>>

\* lines 105-111, one more layer: its bounds, its peakiness (which raises when
\* num_mountains - 1 = 0), and the call of generate_peaks
LayerBegin ==
    /\ spc = "loop"
    /\ layer < params.mountain_range_count
    /\ bounds' = get_bounds(params, layer)
    /\ LET peakiness == sample_linear(Lit_0_4, Lit_0_1, layer,
                                      params.mountain_range_count - 1)
       IN  IF ~IsNum(bounds'[1]) \/ ~IsNum(bounds'[2]) \/ ~IsNum(peakiness)
           THEN /\ spc' = "raised" /\ serr' = "ZeroDivisionError"
                /\ UNCHANGED peakVars
           ELSE /\ PeaksCall(params.mountain_peaks, bounds', params.img_dimensions,
                             peakiness)
                /\ spc' = "peaks" /\ serr' = serr
    /\ UNCHANGED <<random, genVars, call, params, layer, path, surface, printed,
                   fogVars, palette>>

\* generate_peaks raised: nothing catches it, create_scene is left
LayerRaised ==
    /\ spc = "peaks" /\ ppc = "raised"
    /\ spc' = "raised" /\ serr' = perr
    /\ ppc' = "idle"
    /\ UNCHANGED <<random, genVars, pnum, pbounds, pdims, ppeakiness, num_peaks,
                   peaks_y, peaks_x, jitter_amount, jittered, presult, perr, call,
                   params, layer, bounds, path, surface, printed, fogVars, palette>>

\* lines 111-122: generate_peaks returned the path; the mountains are drawn
DrawLayerMountains ==
    /\ spc = "peaks" /\ ppc = "returned"
    /\ path' = presult
    /\ surface' = Append(surface,
           draw_path("mountain", layer, path', MountainFill(params, palette, layer)))
    /\ spc' = "fog"
    /\ ppc' = "idle"
    /\ UNCHANGED <<random, genVars, pnum, pbounds, pdims, ppeakiness, num_peaks,
                   peaks_y, peaks_x, jitter_amount, jittered, presult, perr, call,
                   params, layer, bounds, printed, serr, fogVars, palette>>

\* lines 125-127: the fog is drawn over the same path; the loop goes on
DrawLayerFog ==
    /\ spc = "fog"
    /\ surface' = Append(surface,
           draw_path("fog", layer, path, FogFill(params, palette, layer, path)))
    /\ layer' = layer + 1
    /\ spc' = "loop"
    /\ UNCHANGED <<random, genVars, peakVars, call, params, bounds, path, printed,
                   serr, fogVars, palette>>

\* the for loop of line 105 is exhausted: draw_mountains returns
MountainsReturn ==
    /\ spc = "loop"
    /\ layer >= params.mountain_range_count
    /\ spc' = "body"
    /\ call' = call + 1
    /\ UNCHANGED <<random, genVars, peakVars, params, layer, bounds, path, surface,
                   printed, serr, fogVars, palette>>

\* line 162, after the with block: print("done")
SceneDone ==
    /\ spc = "body" /\ call > Len(create_scene)
    /\ printed' = TRUE
    /\ spc' = "done"
    /\ UNCHANGED <<random, genVars, peakVars, call, params, layer, bounds, path,
                   surface, serr, fogVars, palette>>

\* the values of random.random() when a whole scene is generated
SceneDraws == {Zero, Lit_0_5}

InitScene ==
    /\ random = SceneDraws
    /\ GenIdle /\ PeaksIdle
    /\ spc = "body" /\ call = 1
    /\ \E count \in 0..MaxLayers, peaks \in {<<1, 1>>, <<0, 0>>},
          peakiness \in {One, FromInt(4)} :
          params = SceneParameters(count, peaks, peakiness)
    /\ layer = 0 /\ bounds = <<Unset, Unset>> /\ path = <<>> /\ surface = <<>>
    /\ printed = FALSE /\ serr = ""
    /\ palette = ColorGradients /\ fogs = <<>>

NextScene ==
    \/ DrawSky \/ DrawSun \/ DrawMountains \/ LayerBegin \/ LayerRaised
    \/ DrawLayerMountains \/ DrawLayerFog \/ MountainsReturn \/ SceneDone
    \/ PeaksRandint \/ PeaksCollect \/ PeaksXs \/ PeaksJitter \/ PeaksReturn
    \/ GenStart \/ GenRedraw \/ GenYield

SpecScene == InitScene /\ [][NextScene]_vars

(***************************************************************************)
(* ColorGradients.get_fog_at_level, called on its own                      *)
(***************************************************************************)
Thicknesses == {Float(k, 4) : k \in 0..MaxThick}

GetFogAtLevel ==
    /\ Len(fogs) < MaxCalls
    /\ \E t \in Thicknesses :
          fogs' = Append(fogs, [thickness |-> t, result |-> get_fog_at_level(palette, t)])
    /\ UNCHANGED <<random, genVars, peakVars, sceneVars, palette>>

InitFog ==
    /\ random = {}
    /\ GenIdle /\ PeaksIdle /\ SceneIdle
    /\ palette = ColorGradients /\ fogs = <<>>

NextFog == GetFogAtLevel

SpecFog == InitFog /\ [][NextFog]_vars

(***************************************************************************)
(* Properties of good_random_numbers (SpecRandoms, SpecRandomsFair).       *)
(***************************************************************************)
\* the threshold the claims name: d if d <= 0.49, else 0.49
EffectiveDiff == IF FLe(gdiff, Lit_0_49) THEN gdiff ELSE Lit_0_49

\* the float the expression raw * (max - min) + min evaluates to
YieldOf(raw) == FAdd(FMul(raw, FSub(gmax, gmin)), gmin)

\* the raw draw behind the value of the last yield
LastRaw == IF gpc = "yield48" THEN new ELSE prev

\* C1, as claimed: for num >= 1 and min < max, a raw draw accepted after the
\* first differs from the raw draw accepted before it by at least the
\* effective threshold, and every yielded value is raw * (max - min) + min and
\* lies in [min, max).
C1_YieldedBelowMax ==
    (gpc \in {"yield42", "yield48"} /\ gnum >= 1 /\ FLt(gmin, gmax)) =>
        /\ gpc = "yield48" => FLe(EffectiveDiff, FAbs(FSub(new, prev)))
        /\ out = YieldOf(LastRaw)
        /\ FLe(gmin, out) /\ FLt(out, gmax)

\* C1, amended: the same, but the yielded value, the float result of
\* raw * (max - min) + min, lies in [min, max]: rounding can make it max.
C1_AcceptedDrawsDiffer ==
    (gpc \in {"yield42", "yield48"} /\ gnum >= 1 /\ FLt(gmin, gmax)) =>
        /\ gpc = "yield48" => FLe(EffectiveDiff, FAbs(FSub(new, prev)))
        /\ out = YieldOf(LastRaw)
        /\ FLe(gmin, out) /\ FLe(out, gmax)

\* a third value is yielded under a corrected threshold: the largest draw,
\* whose value rounds to max
C1_Witness ==
    /\ gpc = "yield48" /\ gnum >= 1 /\ gcount = 3
    /\ FLt(Lit_0_49, gdiff) /\ FLt(prev, new) /\ FLt(Zero, gmin)
    /\ out = gmax

\* C5: for min_diff_percent > 0.45 and num >= 1, once the generator runs a
\* diagnostic has been printed, the generator is in one of its own positions
\* (it raised nothing) and the threshold it tests against is at most 0.49.
C5_UnsafeDiffIsDiagnosedAndClamped ==
    (gpc \notin {"idle", "created"} /\ gnum >= 1 /\ FLt(Lit_0_45, gdiff)) =>
        /\ Len(diag) >= 1 /\ diag[1] = "warning"
        /\ gpc \in {"yield42", "while", "yield48", "done"}
        /\ FLe(min_diff_percent, Lit_0_49)
        /\ min_diff_percent = EffectiveDiff

\* a draw is being tested against a threshold that was corrected from 1.2
C5_Witness ==
    /\ gpc = "while" /\ gdiff = Float(12, 10) /\ min_diff_percent = Lit_0_49
    /\ diag = <<"warning", "corrected">>

\* C8: whatever draw was accepted last, some draw passes the test; with a fair
\* random source the generator finishes, having yielded num values (num >= 0);
\* for num = 0 it yields nothing and never consumes a draw.
C8_GeneratorTerminates ==
    /\ [](gpc = "while" => \E r \in random : ~Rejected(r, prev, min_diff_percent))
    /\ <>(gpc = "done" /\ (gnum >= 0 => gcount = gnum))
    /\ [](gnum = 0 => (~drew /\ gcount = 0))

\* the generator finished after LiveNum values under a corrected threshold
C8_Witness ==
    /\ gpc = "done" /\ gnum = LiveNum /\ gcount = LiveNum /\ drew
    /\ FLt(Lit_0_49, gdiff)

(***************************************************************************)
(* Properties of generate_peaks (SpecPeaks).                               *)
(***************************************************************************)
\* C2: for a range with 1 <= lo <= hi, generate_peaks returns num_peaks + 2
\* points, num_peaks being the integer draw from lo..hi plus 2, and the last
\* two points are (0, height) and (width, height), in that order.
C2_PeaksResultShape ==
    (ppc = "returned" /\ 1 <= pnum[1] /\ pnum[1] <= pnum[2]) =>
        /\ (num_peaks - 2) \in pnum[1]..pnum[2]
        /\ Len(presult) = num_peaks + 2
        /\ presult[Len(presult) - 1] = <<Zero, FromInt(pdims[2])>>
        /\ presult[Len(presult)] = <<FromInt(pdims[1]), FromInt(pdims[2])>>

\* a polygon of MaxPeaks + 2 peaks and the two closing points was returned
C2_Witness ==
    /\ ppc = "returned" /\ pnum[1] >= 1 /\ num_peaks = MaxPeaks + 2
    /\ Len(presult) = MaxPeaks + 4

\* C4, as claimed: with a range whose minimum is less than 1, generate_peaks
\* never returns a polygon.
C4_LowMinimumNeverReturns ==
    pnum[1] < 1 => ppc # "returned"

\* C4, amended: generate_peaks raises exactly when the range is empty
\* (ValueError from the integer draw) or the integer draw is 0 (num_peaks = 2,
\* ZeroDivisionError at line 64, after the heights were drawn); for every other
\* draw, negative ones included, it goes on and returns a polygon.
C4_RaisesExactlyOnDrawZero ==
    /\ ppc = "raised" =>
          \/ pnum[1] > pnum[2] /\ perr = "ValueError" /\ num_peaks = 0
          \/ pnum[1] <= pnum[2] /\ perr = "ZeroDivisionError" /\ num_peaks = 2
             /\ Len(peaks_y) = 2
    /\ (ppc \in {"jitter", "returned"}) => (num_peaks # 2 /\ pnum[1] <= pnum[2])
    /\ ppc = "returned" =>
          /\ perr = ""
          /\ Len(presult) = (IF num_peaks > 0 THEN num_peaks ELSE 0) + 2

\* the minimum is below 1, the draw was -1, and three points were returned
C4_Witness ==
    /\ ppc = "returned" /\ pnum[1] < 1 /\ num_peaks = 1 /\ Len(presult) = 3

\* the x coordinates of the generated peaks, in the order of the result
PeakXs == [k \in 1..(Len(presult) - 2) |-> presult[k][1]]

\* C10: for a range with minimum >= 1, the generated peaks are strictly
\* x-sorted, descending; the first lies right of the image, the last left of
\* it, and all others inside [0, width].
C10_PeaksSortedAnchorsOffScreen ==
    (ppc = "returned" /\ 1 <= pnum[1] /\ pnum[1] <= pnum[2]) =>
        LET n == Len(PeakXs)
            width == FromInt(pdims[1])
        IN  /\ n >= 3
            /\ \A k \in 1..(n - 1) : FLt(PeakXs[k + 1], PeakXs[k])
            /\ FLt(width, PeakXs[1])
            /\ FLt(PeakXs[n], Zero)
            /\ \A k \in 2..(n - 1) :
                  FLe(Zero, PeakXs[k]) /\ FLe(PeakXs[k], width)

\* two inner peaks, the first jittered to the left by the largest draw and
\* the second jittered to the right by the smallest
C10_Witness ==
    /\ ppc = "returned" /\ pnum[1] >= 1 /\ num_peaks = 4
    /\ jittered[2] = Jitter(EvenX(1, 4), RandomMax, jitter_amount)
    /\ jittered[3] = Jitter(EvenX(2, 4), Zero, jitter_amount)

(***************************************************************************)
(* Properties of create_scene (SpecScene).                                 *)
(***************************************************************************)
\* C3: with mountain_range_count = 1 no layer is drawn and no polygon is
\* generated: the surface holds at most the sky and the sun, generate_peaks
\* is never called, "done" is never printed, and the one step the loop can
\* take raises ZeroDivisionError (the division by count - 1).
C3_SingleRangeRaises ==
    /\ [](params.mountain_range_count = 1 =>
            /\ \A k \in 1..Len(surface) : surface[k].kind \in {"sky", "sun"}
            /\ ppc = "idle" /\ gpc = "idle" /\ presult = <<>> /\ path = <<>>
            /\ spc \in {"body", "loop", "raised"} /\ layer = 0 /\ ~printed
            /\ spc = "raised" => serr = "ZeroDivisionError")
    /\ [][(params.mountain_range_count = 1 /\ spc = "loop") => spc' = "raised"]_vars

\* the mountain pass of a one-range scene raised, after the sky and the sun
C3_Witness ==
    /\ params.mountain_range_count = 1 /\ spc = "raised"
    /\ serr = "ZeroDivisionError" /\ Len(surface) = 2

\* C6: for count >= 2 and a valid peak range the surface holds, in this order,
\* the sky over the whole canvas, the sun, then for layer 0, 1, ... the
\* mountain fill of the layer's polygon followed at once by the fog fill of the
\* same polygon; a finished scene holds all 2 + 2 * count fills.
C6_DrawOrder ==
    (params.mountain_range_count >= 2 /\ params.mountain_peaks[1] >= 1) =>
        /\ \A k \in 1..Len(surface) :
              LET e == surface[k]
              IN  IF k = 1
                  THEN /\ e.kind = "sky"
                       /\ e.path = << <<Zero, Zero>>,
                                      <<FromInt(params.img_dimensions[1]),
                                        FromInt(params.img_dimensions[2])>> >>
                  ELSE IF k = 2
                  THEN e.kind = "sun"
                  ELSE /\ e.layer = (k - 3) \div 2
                       /\ e.layer < params.mountain_range_count
                       /\ Len(e.path) >= 3
                       /\ IF (k - 3) % 2 = 0
                          THEN e.kind = "mountain"
                          ELSE e.kind = "fog" /\ e.path = surface[k - 1].path
        /\ spc = "fog" => Len(surface) = 3 + 2 * layer
        /\ spc \in {"loop", "peaks"} => Len(surface) = 2 + 2 * layer
        /\ spc = "done" => Len(surface) = 2 + 2 * params.mountain_range_count

\* a scene of MaxLayers layers is finished, its first two layers over
\* different polygons
C6_Witness ==
    /\ spc = "done" /\ printed /\ params.mountain_range_count = MaxLayers
    /\ Len(surface) = 2 + 2 * MaxLayers
    /\ surface[3].path # surface[5].path

\* C9, as claimed: both bounds of the band passed to generate_peaks sample the
\* sweep from start to end, at i and at i + 1.
C9_BandIsOneSweep ==
    spc = "peaks" =>
        pbounds = <<sample_linear(params.mountain_position[1],
                                  params.mountain_position[2],
                                  layer, params.mountain_range_count),
                    sample_linear(params.mountain_position[1],
                                  params.mountain_position[2],
                                  layer + 1, params.mountain_range_count)>>

\* C9, amended: the lower bound samples the sweep from start to end at i; the
\* upper bound samples the sweep from start * mountain_peakiness to end at
\* i + 1, so it is the lower bound of layer i + 1 when mountain_peakiness = 1.
C9_BandUpperScaledByPeakiness ==
    spc = "peaks" =>
        LET start == params.mountain_position[1]
            end == params.mountain_position[2]
            n == params.mountain_range_count
        IN  /\ pbounds[1] = sample_linear(start, end, layer, n)
            /\ pbounds[2] = sample_linear(FMul(start, params.mountain_peakiness), end,
                                          layer + 1, n)
            /\ params.mountain_peakiness = One =>
                  pbounds[2] = sample_linear(start, end, layer + 1, n)

\* layer 0 of two, peakiness 4: the band is 0.15 to 0.6499999999999999, the
\* float below 0.65, while layer 1 will start at 0.425
C9_Witness ==
    /\ spc = "peaks" /\ layer = 0 /\ params.mountain_range_count = 2
    /\ params.mountain_peakiness = FromInt(4)
    /\ pbounds[1] = Float(15, 100)
    /\ FAdd(pbounds[2], FPow2(0 - Precision)) = Float(65, 100)
    /\ FLt(pbounds[2], Float(65, 100))
    /\ sample_linear(params.mountain_position[1], params.mountain_position[2], 1, 2)
          = Float(425, 1000)

(***************************************************************************)
(* Properties of get_fog_at_level (SpecFog).                               *)
(***************************************************************************)
\* C7: every gradient get_fog_at_level(thickness) returned has the stops of
\* Fog, in order, with alpha multiplied by thickness and hue, saturation and
\* value as they were; the palette's Fog is still white to transparent.
C7_FogScalesAlpha ==
    /\ palette.Fog = <<HSV(0, Zero, One, One),
                       HSV(0, Zero, Zero, Zero)>>
    /\ \A k \in 1..Len(fogs) :
          LET g == fogs[k].result
          IN  /\ Len(g) = Len(palette.Fog)
              /\ \A j \in 1..Len(g) :
                    /\ g[j].alpha = FMul(palette.Fog[j].alpha, fogs[k].thickness)
                    /\ g[j].hue = palette.Fog[j].hue
                    /\ g[j].saturation = palette.Fog[j].saturation
                    /\ g[j].value = palette.Fog[j].value

\* thickness 0.5 gave alphas 0.5 and 0; then thickness 0 was asked for
C7_Witness ==
    /\ Len(fogs) = 2
    /\ fogs[1].thickness = Lit_0_5
    /\ fogs[1].result[1].alpha = Lit_0_5 /\ fogs[1].result[2].alpha = Zero
    /\ fogs[2].thickness = Zero

====
